---- MODULE Spec2Model ----
(***************************************************************************)
(* KwdCat: a Kenwood CAT driver over a serial byte stream (src/KwdCat.py). *)
(*                                                                         *)
(* A text (str) is a sequence of one-character strings, a byte string a    *)
(* sequence of integers 0..255; encode and decode convert between them.    *)
(* Python's 0-based indices are kept in the operators' interfaces (Find,   *)
(* Slice, PyIndex) and shifted by one only where a sequence is accessed.   *)
(***************************************************************************)
EXTENDS Integers, Sequences, FiniteSets, TLC

\* ------------------------------------------------------------------ bounds

\* Largest number of chunks the radio (or other software on the shared
\* line) puts into the receive buffer between two flushes.
MaxChunks == 2

\* ConvertMode is run on the integers from -ModeMargin to 9 + ModeMargin.
ModeMargin == 3

\* --------------------------------------------------------- program constants

\* checkradio: self.query('IF',37)
StatusLen == 37

\* ------------------------------------------------------------- characters

Digits == {"0", "1", "2", "3", "4", "5", "6", "7", "8", "9"}

Whitespace == {" "}

\* the code point of each character the model uses (all ASCII)
Ord ==
    (" " :> 32) @@ (";" :> 59) @@ ("?" :> 63) @@
    ("0" :> 48) @@ ("1" :> 49) @@ ("2" :> 50) @@ ("3" :> 51) @@ ("4" :> 52) @@
    ("5" :> 53) @@ ("6" :> 54) @@ ("7" :> 55) @@ ("8" :> 56) @@ ("9" :> 57) @@
    ("A" :> 65) @@ ("B" :> 66) @@ ("C" :> 67) @@ ("D" :> 68) @@ ("F" :> 70) @@
    ("I" :> 73) @@ ("N" :> 78) @@ ("P" :> 80) @@ ("R" :> 82) @@ ("S" :> 83) @@
    ("T" :> 84) @@ ("U" :> 85) @@ ("X" :> 88) @@
    ("f" :> 102) @@ ("i" :> 105)

Chr(b) == CHOOSE c \in DOMAIN Ord : Ord[c] = b

\* str.encode() and bytes.decode(): UTF-8, one byte per ASCII character;
\* a byte above 127 standing alone is not UTF-8 and makes decode raise
encode(text) == [i \in 1..Len(text) |-> Ord[text[i]]]

Decodable(b) == \A i \in 1..Len(b) : b[i] < 128

decode(b) == [i \in 1..Len(b) |-> Chr(b[i])]

Min(a, b) == IF a < b THEN a ELSE b

\* ------------------------------------------------------ Python str helpers

\* s[a:b] for 0 <= a, 0 <= b
Slice(s, a, b) == SubSeq(s, a + 1, Min(b, Len(s)))

\* s.find(sub): the lowest 0-based index at which sub occurs in s, else -1
Find(sub, s) ==
    LET hits == {i \in 0..(Len(s) - Len(sub)) : Slice(s, i, i + Len(sub)) = sub}
    IN  IF hits = {} THEN -1 ELSE CHOOSE i \in hits : \A j \in hits : i <= j

RECURSIVE LStripSet(_, _)
LStripSet(s, cs) ==
    IF s # <<>> /\ Head(s) \in cs THEN LStripSet(Tail(s), cs) ELSE s

RECURSIVE RStripSet(_, _)
RStripSet(s, cs) ==
    IF s # <<>> /\ s[Len(s)] \in cs THEN RStripSet(SubSeq(s, 1, Len(s) - 1), cs) ELSE s

\* request.strip()
Strip(s) == RStripSet(LStripSet(s, Whitespace), Whitespace)

\* the outcome of s[i]: the character, or IndexError
InRange(s, i) == -Len(s) <= i /\ i < Len(s)

PyIndex(s, i) == IF i >= 0 THEN s[i + 1] ELSE s[Len(s) + i + 1]

\* ------------------------------------------------------------- outcomes

\* What a call yields: a value, None, or an exception that leaves the call.
None == [kind |-> "None", val |-> <<>>]

Value(v) == [kind |-> "value", val |-> v]

Raise(e) == [kind |-> e, val |-> <<>>]

Pending == [kind |-> "pending", val |-> <<>>]

Exceptions == {"IndexError", "UnboundLocalError", "UnicodeDecodeError",
               "TypeError", "AttributeError"}

Raised(r) == r.kind \in Exceptions

\* ------------------------------------------------------------- frames

ReqIF == <<"I", "F">>

ReqPS1 == <<"P", "S", "1">>

\* the comment of query: IF00014050380      040000041020000080
ScenarioFreq == <<"0", "0", "0", "1", "4", "0", "5", "0", "3", "8", "0">>

StatusFill == <<" ", " ", " ", " ", " ", " ">>

StatusTail == <<"0", "4", "0", "0", "0", "0", "0", "4", "1",
                "0", "2", "0", "0", "0", "0", "0", "8", "0">>

StatusFrame(d) == ReqIF \o d \o StatusFill \o StatusTail

\* send_string = f"{request.strip()};" ... send_string.encode()
send_string(req) == Strip(req) \o <<";">>

\* ------------------------------------------------------------- state

VARIABLES
    rx,         \* the transport's receive buffer (bytes not yet read)
    sent,       \* chunks put into rx since the last flush
    stale,      \* whether rx held bytes when query was called
    staleLeft,  \* how many of those bytes are still at the head of rx
    staleRead,  \* of those, the bytes that went into recvd_data
    tx,         \* the frames written to the transport by the current call
    ops,        \* the transport operations of the current call, in order
    pc,         \* position inside query, or "idle" / "ret" / "done"
    proc,       \* the operation the caller invoked
    stage,      \* checkradio's position
    request,    \* query's argument request
    length,     \* query's argument length
    recvd_data, \* query's local recvd_data (bytes)
    answer,     \* query's local answer (text), meaningful when bound
    bound,      \* whether query's local answer has been assigned
    data_left,  \* query's local data_left
    ret,        \* what the current query yields
    calls,      \* the queries issued by the current call, in order
    outcomes,   \* what each of them yielded
    result,     \* what the caller's operation yields
    facade,     \* the facade method running, its arguments and its position
    stream,     \* codec: a reply stream handed to the matching step
    cmd,        \* codec: the text handed to a decoder
    decoder,    \* codec: the decoder that was called
    decoded     \* codec: what the decoder yields

xvars == <<rx, sent>>

qvars == <<stale, staleLeft, staleRead, tx, ops, pc, request, length, recvd_data, answer,
           bound, data_left, ret, calls, outcomes>>

cvars == <<proc, stage, result, facade>>

dvars == <<stream, cmd, decoder, decoded>>

vars == <<xvars, qvars, cvars, dvars>>

\* ------------------------------------------------------------- transport
\* pyserial's Serial object, as query drives it.

\* what the radio, or other software sharing the line, may put on the line
DeviceChunks ==
    { encode(StatusFrame(ScenarioFreq) \o <<";">>),
      encode(StatusFrame(ScenarioFreq)),
      encode(<<";">>),
      encode(<<"?">>),
      <<255>> }

\* a flush that leaves the buffer as it is
reset_input_buffer_kept(buf) == buf

\* self.serial.reset_input_buffer()
reset_input_buffer(buf) == <<>>

\* self.serial.read_until(';'): the number of bytes it takes from the
\* buffer.  It stops behind the first terminator, or, when the read timeout
\* ends it (or the terminator is not recognised), with all the bytes there.
read_until(buf) ==
    LET terms == {i \in 1..Len(buf) : buf[i] = Ord[";"]}
    IN  {Len(buf)} \cup
        (IF terms = {} THEN {} ELSE {CHOOSE i \in terms : \A j \in terms : i <= j})

\* self.serial.inWaiting()
inWaiting(buf) == Len(buf)

\* ------------------------------------------------------------- query

\* a test of length that always expects an answer
ExpectsAnswerAlways(len) == TRUE

\* if length != 0:
ExpectsAnswer(len) == len # 0

\* answer[start + length] == ';' without the guard of the line before it
ExtractUnguarded(req, len, text) ==
    LET start == Find(req, text)
    IN  IF ~InRange(text, start + len) THEN Raise("IndexError")
        ELSE IF PyIndex(text, start + len) = ";"
             THEN Value(Slice(text, start, start + len))
             ELSE None

\* start = answer.find(request) ... return answer / return
Extract(req, len, text) ==
    LET start == Find(req, text)
    IN  IF start # -1 /\ len < Len(text)
        THEN IF ~InRange(text, start + len) THEN Raise("IndexError")
             ELSE IF PyIndex(text, start + len) = ";"
                  THEN Value(Slice(text, start, start + len))
                  ELSE None
        ELSE None

Op(name, ok) == [op |-> name, q |-> Len(calls), ok |-> ok]

\* query is entered with arguments (req, len)
StartQuery(req, len) ==
    /\ request' = req
    /\ length' = len
    /\ calls' = Append(calls, <<req, len>>)
    /\ pc' = "flush"
    /\ recvd_data' = <<>>
    /\ answer' = <<>>
    /\ bound' = FALSE
    /\ data_left' = 0
    /\ ret' = Pending
    /\ stale' = (rx # <<>>)
    /\ staleLeft' = Len(rx)
    /\ staleRead' = 0

\* query is left with outcome r
EndQuery(r) ==
    /\ ret' = r
    /\ outcomes' = Append(outcomes, r)
    /\ pc' = "ret"

\* n bytes leave the head of rx
Take(n) ==
    /\ rx' = SubSeq(rx, n + 1, Len(rx))
    /\ staleLeft' = staleLeft - Min(n, staleLeft)
    /\ staleRead' = staleRead + Min(n, staleLeft)
    /\ UNCHANGED stale

Flush ==
    /\ pc = "flush"
    /\ rx' = reset_input_buffer(rx)
    /\ sent' = 0
    /\ staleLeft' = Min(staleLeft, Len(rx'))
    /\ ops' = Append(ops, Op("flush", TRUE))
    /\ pc' = "write"
    /\ UNCHANGED <<stale, staleRead, tx, request, length, recvd_data, answer, bound,
                   data_left, ret, calls, outcomes, cvars, dvars>>

\* try: self.serial.write(...) except SerialException: pass, then the test
\* of length
Write ==
    /\ pc = "write"
    /\ \E ok \in BOOLEAN :
        /\ ops' = Append(ops, Op("write", ok))
        /\ tx' = IF ok THEN Append(tx, encode(send_string(request))) ELSE tx
    /\ IF ExpectsAnswer(length)
       THEN pc' = "read_until" /\ UNCHANGED <<ret, outcomes>>
       ELSE EndQuery(None)
    /\ UNCHANGED <<xvars, stale, staleLeft, staleRead, request, length, recvd_data, answer,
                   bound, data_left, calls, cvars, dvars>>

\* a transport read raises SerialException: caught, answer stays unassigned
ReadFails(name) ==
    /\ ops' = Append(ops, Op(name, FALSE))
    /\ pc' = "match"
    /\ UNCHANGED <<xvars, stale, staleLeft, staleRead, recvd_data, answer, bound, data_left>>

ReadUntil ==
    /\ pc = "read_until"
    /\ \/ \E n \in read_until(rx) :
            /\ Take(n)
            /\ recvd_data' = SubSeq(rx, 1, n)
            /\ ops' = Append(ops, Op("read_until", TRUE))
            /\ pc' = "inWaiting"
            /\ UNCHANGED <<sent, answer, bound, data_left>>
       \/ ReadFails("read_until")
    /\ UNCHANGED <<tx, request, length, ret, calls, outcomes, cvars, dvars>>

InWaiting ==
    /\ pc = "inWaiting"
    /\ \/ /\ data_left' = inWaiting(rx)
          /\ ops' = Append(ops, Op("inWaiting", TRUE))
          /\ pc' = "read"
          /\ UNCHANGED <<xvars, stale, staleLeft, staleRead, recvd_data, answer, bound>>
       \/ ReadFails("inWaiting")
    /\ UNCHANGED <<tx, request, length, ret, calls, outcomes, cvars, dvars>>

\* recvd_data += self.serial.read(data_left); answer = recvd_data.decode()
Read ==
    /\ pc = "read"
    /\ \/ LET n == Min(data_left, Len(rx))
              raw == recvd_data \o SubSeq(rx, 1, n)
          IN  /\ Take(n)
              /\ recvd_data' = raw
              /\ ops' = Append(ops, Op("read", TRUE))
              /\ IF Decodable(raw)
                 THEN /\ answer' = decode(raw)
                      /\ bound' = TRUE
                      /\ pc' = "match"
                      /\ UNCHANGED <<ret, outcomes>>
                 ELSE /\ UNCHANGED <<answer, bound>>
                      /\ EndQuery(Raise("UnicodeDecodeError"))
              /\ UNCHANGED <<sent, data_left>>
       \/ ReadFails("read") /\ UNCHANGED <<ret, outcomes>>
    /\ UNCHANGED <<tx, request, length, calls, cvars, dvars>>

\* start = answer.find(request) ... return
Match ==
    /\ pc = "match"
    /\ EndQuery(IF bound THEN Extract(request, length, answer)
                ELSE Raise("UnboundLocalError"))
    /\ UNCHANGED <<xvars, stale, staleLeft, staleRead, tx, ops, request, length, recvd_data,
                   answer, bound, data_left, calls, cvars, dvars>>

\* ------------------------------------------------------------- callers

NoResult == [kind |-> "pending", val |-> <<>>]

Bool(b) == [kind |-> IF b THEN "True" ELSE "False", val |-> <<>>]

\* the requests and lengths a caller passes to query directly
Requests == {ReqIF, ReqPS1, <<" ", "I", "F">>}

Lengths == {0, StatusLen}

CallQuery ==
    /\ pc = "idle"
    /\ \E req \in Requests, len \in Lengths : StartQuery(req, len)
    /\ proc' = "query"
    /\ UNCHANGED <<xvars, tx, ops, outcomes, stage, result, facade, dvars>>

QueryReturns ==
    /\ pc = "ret"
    /\ proc = "query"
    /\ result' = ret
    /\ pc' = "done"
    /\ UNCHANGED <<xvars, stale, staleLeft, staleRead, tx, ops, request, length, recvd_data,
                   answer, bound, data_left, ret, calls, outcomes, proc, stage,
                   facade, dvars>>

\* the test with "is None" for "is not None"
RespondingIsNone(r) == r.kind = "None"

\* if answer is not None and len(answer) != 0:
Responding(r) == r.kind = "value" /\ Len(r.val) # 0

\* a control flow that switches the radio on again when the second status
\* query was not answered
CheckradioNextAgain(st, ok) ==
    CASE st = "first"   -> IF ok THEN "True" ELSE "poweron"
      [] st = "poweron" -> "second"
      [] st = "second"  -> IF ok THEN "True" ELSE "poweron"

\* checkradio's control flow: where it goes from position st when the
\* query it has just made was (ok) or was not answered
CheckradioNext(st, ok) ==
    CASE st = "first"   -> IF ok THEN "True" ELSE "poweron"
      [] st = "poweron" -> "second"
      [] st = "second"  -> IF ok THEN "True" ELSE "False"

\* answer = self.query('IF',37)
CallCheckradio ==
    /\ pc = "idle"
    /\ StartQuery(ReqIF, StatusLen)
    /\ proc' = "checkradio"
    /\ stage' = "first"
    /\ UNCHANGED <<xvars, tx, ops, outcomes, result, facade, dvars>>

\* checkradio goes on after a query has returned, or is left by the
\* exception the query raised
Checkradio ==
    /\ pc = "ret"
    /\ proc = "checkradio"
    /\ IF Raised(ret)
       THEN /\ result' = ret
            /\ pc' = "done"
            /\ UNCHANGED <<stale, staleLeft, staleRead, request, length, recvd_data, answer,
                           bound, data_left, ret, calls, stage>>
       ELSE LET nxt == CheckradioNext(stage, Responding(ret))
            IN  /\ stage' = nxt
                /\ CASE nxt = "poweron" ->
                          StartQuery(ReqPS1, 0) /\ UNCHANGED result
                     [] nxt = "second" ->
                          StartQuery(ReqIF, StatusLen) /\ UNCHANGED result
                     [] OTHER ->
                          /\ result' = Bool(nxt = "True")
                          /\ pc' = "done"
                          /\ UNCHANGED <<stale, staleLeft, staleRead, request, length,
                                         recvd_data, answer, bound, data_left,
                                         ret, calls>>
    /\ UNCHANGED <<xvars, tx, ops, outcomes, proc, facade, dvars>>

\* ---- the facade methods: FreqUp .. RadioOnOff

NoFacade == [op |-> "none", vfo |-> 0, up |-> 0, step |-> 0, state |-> 0, at |-> 0]

\* f'{n}' for an integer n >= 0
RECURSIVE Str(_)
Str(n) ==
    IF n < 10 THEN <<Chr(48 + n)>> ELSE Str(n \div 10) \o <<Chr(48 + (n % 10))>>

\* f'{n:02}': at least two characters, zeros on the left
Format02(n) == IF Len(Str(n)) < 2 THEN <<"0">> \o Str(n) ELSE Str(n)

\* the arguments the facade methods are called with
Steps == {0, 1, 9, 10, 99}

States == {0, 1}

Call(o, v, u, s, st) == [op |-> o, vfo |-> v, up |-> u, step |-> s, state |-> st, at |-> 1]

FacadeCalls ==
    {Call(o, 0, 0, s, 0) : o \in {"FreqUp", "FreqDown"}, s \in Steps}
        \cup {Call("VFOfreq", v, u, s, 0) : v \in {0, 1}, u \in {0, 1}, s \in Steps}
        \cup {Call(o, 0, 0, 0, 0) : o \in {"RITUp", "RITDown"}}
        \cup {Call(o, 0, 0, 0, st) : o \in {"RITOnOff", "XITOnOff", "RadioOnOff"},
                                     st \in States}

\* a statement self.query(req, 0), under a condition or not
Stmt(cond, req) == [when |-> cond, req |-> req]

\* two tests of state of which the second holds whatever the state
OnOffUnconditional(state, a, reqa, b, reqb) ==
    <<Stmt(state = a, reqa), Stmt(TRUE, reqb)>>

\* if self.state == a: self.query(reqa,0)
\* if self.state == b: self.query(reqb,0)
OnOff(state, a, reqa, b, reqb) ==
    <<Stmt(state = a, reqa), Stmt(state = b, reqb)>>

\* the statements of a facade method, in order
FacadeBody(c) ==
    CASE c.op = "FreqUp"     -> <<Stmt(TRUE, <<"U", "P">>)>>
      [] c.op = "FreqDown"   -> <<Stmt(TRUE, <<"D", "N">>)>>
      [] c.op = "VFOfreq"    ->
            <<Stmt(TRUE, <<"U", "D">> \o Str(c.vfo) \o Str(c.up) \o Format02(c.step))>>
      [] c.op = "RITUp"      -> <<Stmt(TRUE, <<"R", "U">>)>>
      [] c.op = "RITDown"    -> <<Stmt(TRUE, <<"R", "D">>)>>
      [] c.op = "RITOnOff"   ->
            OnOff(c.state, 0, <<"R", "T", "0">>, 1, <<"R", "T", "1">>)
      [] c.op = "XITOnOff"   ->
            OnOff(c.state, 0, <<"X", "T", "0">>, 1, <<"X", "T", "1">>)
      [] c.op = "RadioOnOff" ->
            OnOff(c.state, 1, ReqPS1, 0, <<"P", "S", "0">>)

\* the first statement from position i on whose condition holds, 0 if none
NextQuery(body, i) ==
    IF \E j \in i..Len(body) : body[j].when
    THEN CHOOSE j \in i..Len(body) :
            body[j].when /\ \A k \in i..(j - 1) : ~body[k].when
    ELSE 0

\* the method goes on from position c.at: to its next query, or to its end
FacadeRun(c) ==
    LET body == FacadeBody(c)
        j == NextQuery(body, c.at)
    IN  IF j = 0
        THEN /\ result' = None
             /\ pc' = "done"
             /\ facade' = c
             /\ UNCHANGED <<stale, staleLeft, staleRead, request, length, recvd_data,
                            answer, bound, data_left, ret, calls>>
        ELSE /\ StartQuery(body[j].req, 0)
             /\ facade' = [c EXCEPT !.at = j + 1]
             /\ UNCHANGED result

\* a facade method is called
CallFacade ==
    /\ pc = "idle"
    /\ \E c \in FacadeCalls : FacadeRun(c)
    /\ proc' = "facade"
    /\ UNCHANGED <<xvars, tx, ops, outcomes, stage, dvars>>

\* the method goes on after its query has returned, or is left by the
\* exception the query raised
Facade ==
    /\ pc = "ret"
    /\ proc = "facade"
    /\ IF Raised(ret)
       THEN /\ result' = ret
            /\ pc' = "done"
            /\ UNCHANGED <<stale, staleLeft, staleRead, request, length, recvd_data,
                           answer, bound, data_left, ret, calls, facade>>
       ELSE FacadeRun(facade)
    /\ UNCHANGED <<xvars, tx, ops, outcomes, proc, stage, dvars>>

\* ---- send

\* the methods of the class KwdCat
Methods ==
    {"find_ports", "open_port", "close_port", "send", "read", "query", "checkradio",
     "ReadCmdIF", "ReadCmdFAFB", "ReadCmdXI", "ReadCmdPC", "ConvertMode",
     "FreqUp", "FreqDown", "VFOfreq", "RITUp", "RITDown", "RITOnOff", "XITOnOff",
     "RadioOnOff"}

\* self.<name>() as a statement: the attribute is looked up, then called;
\* close_port returns with or without an open port
CallMethod(name) == IF name \in Methods THEN None ELSE Raise("AttributeError")

\* the texts handed to send
SendTexts == {ReqIF \o <<";">>, ReqPS1 \o <<";">>}

\* send(datastosend): the write, and on SerialException the handler
send ==
    /\ pc = "idle"
    /\ \E datastosend \in SendTexts, ok \in BOOLEAN :
        /\ ops' = Append(ops, Op("write", ok))
        /\ tx' = IF ok THEN Append(tx, encode(datastosend)) ELSE tx
        /\ result' = IF ok THEN None ELSE CallMethod("close_comport")
    /\ proc' = "send"
    /\ pc' = "done"
    /\ UNCHANGED <<xvars, stale, staleLeft, staleRead, request, length, recvd_data,
                   answer, bound, data_left, ret, calls, outcomes, stage, facade, dvars>>

\* the caller's operation is over; the transport keeps its buffer
Finish ==
    /\ pc = "done"
    /\ pc' = "idle"
    /\ proc' = "none"
    /\ stage' = "none"
    /\ result' = NoResult
    /\ facade' = NoFacade
    /\ stale' = FALSE
    /\ staleLeft' = 0
    /\ staleRead' = 0
    /\ tx' = <<>>
    /\ ops' = <<>>
    /\ request' = <<>>
    /\ length' = 0
    /\ recvd_data' = <<>>
    /\ answer' = <<>>
    /\ bound' = FALSE
    /\ data_left' = 0
    /\ ret' = Pending
    /\ calls' = <<>>
    /\ outcomes' = <<>>
    /\ UNCHANGED <<xvars, dvars>>

\* bytes arrive on the line
DeviceSend ==
    /\ pc \notin {"ret", "done"}
    /\ sent < MaxChunks
    /\ \E c \in DeviceChunks : rx' = rx \o c
    /\ sent' = sent + 1
    /\ UNCHANGED <<qvars, cvars, dvars>>

\* ------------------------------------------------------------- decoders

RegexNewline == "\n"

\* re.IGNORECASE on the letters of the patterns
Lower(c) ==
    CASE c = "I" -> "i"
      [] c = "F" -> "f"
      [] c = "A" -> "a"
      [] c = "B" -> "b"
      [] c = "X" -> "x"
      [] OTHER -> c

AllIn(t, a, b, cs) == \A i \in a..b : t[i + 1] \in cs

\* re.compile(r"IF[0-9]{11}.{6}[0-9]{17}0", re.IGNORECASE).match(cmd):
\* anchored at the start of cmd, free at its end
MatchIF(t) ==
    /\ Len(t) >= 37
    /\ Lower(t[1]) = "i"
    /\ Lower(t[2]) = "f"
    /\ AllIn(t, 2, 12, Digits)
    /\ \A i \in 13..18 : t[i + 1] # RegexNewline
    /\ AllIn(t, 19, 35, Digits)
    /\ t[37] = "0"

\* the frequency with .strip('0') for .lstrip('0')
FormatFreqStripBoth(f) ==
    RStripSet(LStripSet(Slice(f, 0, 5) \o <<".">> \o Slice(f, 5, Len(f)), {"0"}), {"0"})

\* the frequency left as sliced, leading zeros kept
FormatFreqUnstripped(f) == Slice(f, 0, 5) \o <<".">> \o Slice(f, 5, Len(f))

\* (IFfreq[:5] + '.' + IFfreq[5:]).lstrip('0')
FormatFreq(f) == LStripSet(Slice(f, 0, 5) \o <<".">> \o Slice(f, 5, Len(f)), {"0"})

\* ReadCmdIF taking the split flag one character early, cmd[31]
ReadCmdIFShifted(c) ==
    IF c # None /\ MatchIF(c.val)
    THEN LET t == c.val
         IN  Value(<<FormatFreq(Slice(t, 2, 12)), Slice(t, 19, 23),
                     <<PyIndex(t, 23)>>, <<PyIndex(t, 24)>>, <<PyIndex(t, 28)>>,
                     <<PyIndex(t, 29)>>, <<PyIndex(t, 30)>>, <<PyIndex(t, 31)>>>>)
    ELSE None

\* ReadCmdIF(cmd), cmd being None or a text
ReadCmdIF(c) ==
    IF c # None /\ MatchIF(c.val)
    THEN LET t == c.val
             IFfreq == FormatFreq(Slice(t, 2, 12))
             IFRitFreq == Slice(t, 19, 23)
             IFRitOnOff == <<PyIndex(t, 23)>>
             IFXitOnOff == <<PyIndex(t, 24)>>
             IFRxTx == <<PyIndex(t, 28)>>
             IFMode == <<PyIndex(t, 29)>>
             IFVfo == <<PyIndex(t, 30)>>
             IFSplit == <<PyIndex(t, 32)>>
         IN  Value(<<IFfreq, IFRitFreq, IFRitOnOff, IFXitOnOff, IFRxTx, IFMode,
                     IFVfo, IFSplit>>)
    ELSE None

\* re.compile(r"F[AB][0-9]{11}", re.IGNORECASE).match(cmd)
MatchFAFB(t) ==
    /\ Len(t) >= 13
    /\ Lower(t[1]) = "f"
    /\ Lower(t[2]) \in {"a", "b"}
    /\ AllIn(t, 2, 12, Digits)

\* ReadCmdFAFB slicing all eleven digits, cmd[2:13]
ReadCmdFAFBEleven(c) ==
    IF c # None /\ MatchFAFB(c.val)
    THEN Value(FormatFreq(Slice(c.val, 2, 13)))
    ELSE None

\* ReadCmdFAFB(cmd), cmd being None or a text
ReadCmdFAFB(c) ==
    IF c # None /\ MatchFAFB(c.val)
    THEN LET VFOfreq == FormatFreq(Slice(c.val, 2, 12))
         IN  Value(VFOfreq)
    ELSE None

\* re.compile(r"XI[0-9]{13}00", re.IGNORECASE).match(cmd)
MatchXI(t) ==
    /\ Len(t) >= 17
    /\ Lower(t[1]) = "x"
    /\ Lower(t[2]) = "i"
    /\ AllIn(t, 2, 14, Digits)
    /\ t[16] = "0"
    /\ t[17] = "0"

\* ReadCmdXI(cmd), cmd being None or a text
ReadCmdXI(c) ==
    IF c # None /\ MatchXI(c.val)
    THEN LET t == c.val
             XIfreq == FormatFreq(Slice(t, 2, 12))
             XImode == <<PyIndex(t, 13)>>
             XIdata == <<PyIndex(t, 14)>>
         IN  Value(<<XIfreq, XImode, XIdata>>)
    ELSE None

\* re.compile(r"XI[0-9]{3}", re.IGNORECASE).match(cmd)
MatchPC(t) ==
    /\ Len(t) >= 5
    /\ Lower(t[1]) = "x"
    /\ Lower(t[2]) = "i"
    /\ AllIn(t, 2, 4, Digits)

\* ReadCmdPC(cmd): pattern.match(None) raises TypeError, there being no test
\* of cmd against None before it
ReadCmdPC(c) ==
    IF c = None THEN Raise("TypeError")
    ELSE IF MatchPC(c.val)
         THEN LET PCpower == Slice(c.val, 2, 5)
              IN  Value(PCpower)
         ELSE None

\* modes=('','LSB','USB','CW','FM','AM','FSK','CW-R','None','FSK-R')
modes ==
    << <<>>,
       <<"L", "S", "B">>,
       <<"U", "S", "B">>,
       <<"C", "W">>,
       <<"F", "M">>,
       <<"A", "M">>,
       <<"F", "S", "K">>,
       <<"C", "W", "-", "R">>,
       <<"N", "o", "n", "e">>,
       <<"F", "S", "K", "-", "R">> >>

\* ConvertMode with 0 <= modenr for 1 <= modenr
ConvertModeFromZero(modenr) ==
    IF 0 <= modenr /\ modenr <= 9 THEN Value(modes[modenr + 1]) ELSE None

\* ConvertMode(modenr), modenr being an integer
ConvertMode(modenr) ==
    IF 1 <= modenr /\ modenr <= 9 THEN Value(modes[modenr + 1]) ELSE None

\* the 11-digit frequency fields the decoders are run on
FreqDigits == [1..11 -> {"0", "1"}] \cup {ScenarioFreq}

\* the reply streams the matching step is run on: a status frame, alone or
\* behind a foreign byte, with or without its terminator
CodecStreams ==
    { pre \o StatusFrame(d) \o post :
        d \in FreqDigits, pre \in {<<>>, <<"?">>}, post \in {<<>>, <<";">>} }

\* query('IF',37) on the accumulated text stream: its matching step
CodecQuery ==
    /\ cmd = Pending
    /\ cmd' = Extract(ReqIF, StatusLen, stream)
    /\ UNCHANGED <<xvars, qvars, cvars, stream, decoder, decoded>>

\* ReadCmdIF on what query returned
CodecReadCmdIF ==
    /\ cmd.kind \in {"None", "value"}
    /\ decoded = Pending
    /\ decoded' = ReadCmdIF(cmd)
    /\ decoder' = "IF"
    /\ UNCHANGED <<xvars, qvars, cvars, stream, cmd>>

\* ReadCmdFAFB on a text, or on what query returned
CodecReadCmdFAFB ==
    /\ cmd.kind \in {"None", "value"}
    /\ decoded = Pending
    /\ decoded' = ReadCmdFAFB(cmd)
    /\ decoder' = "FAFB"
    /\ UNCHANGED <<xvars, qvars, cvars, stream, cmd>>

\* ReadCmdXI on a text, or on what query returned
CodecReadCmdXI ==
    /\ cmd.kind \in {"None", "value"}
    /\ decoded = Pending
    /\ decoded' = ReadCmdXI(cmd)
    /\ decoder' = "XI"
    /\ UNCHANGED <<xvars, qvars, cvars, stream, cmd>>

\* ReadCmdPC on a text, or on what query returned
CodecReadCmdPC ==
    /\ cmd.kind \in {"None", "value"}
    /\ decoded = Pending
    /\ decoded' = ReadCmdPC(cmd)
    /\ decoder' = "PC"
    /\ UNCHANGED <<xvars, qvars, cvars, stream, cmd>>

\* ConvertMode on an integer
CodecConvertMode ==
    /\ cmd.kind = "int"
    /\ decoded = Pending
    /\ decoded' = ConvertMode(cmd.val[1])
    /\ decoder' = "Mode"
    /\ UNCHANGED <<xvars, qvars, cvars, stream, cmd>>

\* the example of ReadCmdFAFB: FA00014049680
ScenarioVfoFreq == <<"0", "0", "0", "1", "4", "0", "4", "9", "6", "8", "0">>

VfoFrame(x, d) == <<"F", x>> \o d

\* the example of ReadCmdXI: XI000140496802000
InfoFrame(d, md) == <<"X", "I">> \o d \o md \o <<"0", "0">>

PowerFrame(px, ddd) == px \o ddd

StatusFills ==
    { StatusFill,
      <<" ", " ", " ", " ", " ", "+">>,
      <<"a", "b", "c", "d", "e", "-">> }

StatusTails ==
    { StatusTail,
      <<"0", "1", "2", "3", "4", "5", "6", "7", "8",
        "9", "0", "1", "2", "3", "4", "5", "6", "0">>,
      <<"9", "8", "7", "6", "5", "4", "3", "2", "1",
        "0", "9", "8", "7", "6", "5", "4", "3", "0">> }

\* texts of the four frame formats
FrameTexts ==
    {StatusFrame(d) : d \in FreqDigits}
    \cup {ReqIF \o ScenarioFreq \o fill \o tail :
             fill \in StatusFills, tail \in StatusTails}
    \cup {VfoFrame(x, d) : x \in {"A", "B"}, d \in FreqDigits \cup {ScenarioVfoFreq}}
    \cup {InfoFrame(d, md) : d \in FreqDigits \cup {ScenarioVfoFreq},
                             md \in {<<"2", "0">>, <<"3", "1">>}}
    \cup {PowerFrame(px, ddd) :
             px \in {<<"P", "C">>, <<"X", "I">>},
             ddd \in {<<"0", "0", "0">>, <<"0", "5", "0">>, <<"1", "0", "0">>}}

\* a frame text cut short, with characters behind it or before it, with one
\* character replaced, or with its prefix in lower case
Damaged(t) ==
    {SubSeq(t, 1, Len(t) - 1)}
    \cup {t \o <<c>> : c \in {";", "0"}}
    \cup {<<"?">> \o t}
    \cup {[t EXCEPT ![i] = "x"] : i \in 1..Len(t)}
    \cup {[t EXCEPT ![1] = Lower(t[1]), ![2] = Lower(t[2])]}

DamagedTexts ==
    UNION {Damaged(t) :
             t \in { StatusFrame(ScenarioFreq),
                      VfoFrame("A", ScenarioVfoFreq),
                      InfoFrame(ScenarioVfoFreq, <<"2", "0">>),
                      PowerFrame(<<"P", "C">>, <<"0", "5", "0">>),
                      PowerFrame(<<"X", "I">>, <<"0", "5", "0">>) }}

\* what a decoder may be called with: None, a text, or (ConvertMode) an
\* integer
DecoderArgs ==
    {None}
    \cup {Value(t) : t \in FrameTexts \cup DamagedTexts \cup {<<>>}}
    \cup {[kind |-> "int", val |-> <<k>>] : k \in (0 - ModeMargin)..(9 + ModeMargin)}

\* accumulated texts of query('IF',37) whose outcome goes to a decoder: a
\* terminated status frame, a foreign frame, and a frame cut after n
\* characters and terminated, with the next frame's first 36 - n characters
\* and a terminator behind it
JoinedStream(n) ==
    Slice(StatusFrame(ScenarioFreq), 0, n) \o <<";">>
        \o Slice(StatusFrame(ScenarioFreq), 0, 36 - n) \o <<";">>

QueryStreams ==
    { StatusFrame(ScenarioFreq) \o <<";">>,
      <<"?", ";">>,
      JoinedStream(2),
      JoinedStream(20) }

\* ------------------------------------------------------------- the driver

Init ==
    /\ rx = <<>>
    /\ sent = 0
    /\ pc = "idle"
    /\ proc = "none"
    /\ stage = "none"
    /\ result = NoResult
    /\ facade = NoFacade
    /\ stale = FALSE
    /\ staleLeft = 0
    /\ staleRead = 0
    /\ tx = <<>>
    /\ ops = <<>>
    /\ request = <<>>
    /\ length = 0
    /\ recvd_data = <<>>
    /\ answer = <<>>
    /\ bound = FALSE
    /\ data_left = 0
    /\ ret = Pending
    /\ calls = <<>>
    /\ outcomes = <<>>
    /\ stream = <<>>
    /\ cmd = None
    /\ decoder = "none"
    /\ decoded = Pending

InitCodec ==
    /\ rx = <<>>
    /\ sent = 0
    /\ pc = "idle"
    /\ proc = "none"
    /\ stage = "none"
    /\ result = NoResult
    /\ facade = NoFacade
    /\ stale = FALSE
    /\ staleLeft = 0
    /\ staleRead = 0
    /\ tx = <<>>
    /\ ops = <<>>
    /\ request = <<>>
    /\ length = 0
    /\ recvd_data = <<>>
    /\ answer = <<>>
    /\ bound = FALSE
    /\ data_left = 0
    /\ ret = Pending
    /\ calls = <<>>
    /\ outcomes = <<>>
    /\ stream \in CodecStreams
    /\ cmd = Pending
    /\ decoder = "none"
    /\ decoded = Pending

InitDecode ==
    /\ rx = <<>>
    /\ sent = 0
    /\ pc = "idle"
    /\ proc = "none"
    /\ stage = "none"
    /\ result = NoResult
    /\ facade = NoFacade
    /\ stale = FALSE
    /\ staleLeft = 0
    /\ staleRead = 0
    /\ tx = <<>>
    /\ ops = <<>>
    /\ request = <<>>
    /\ length = 0
    /\ recvd_data = <<>>
    /\ answer = <<>>
    /\ bound = FALSE
    /\ data_left = 0
    /\ ret = Pending
    /\ calls = <<>>
    /\ outcomes = <<>>
    /\ \/ stream = <<>> /\ cmd \in DecoderArgs
       \/ stream \in QueryStreams /\ cmd = Pending
    /\ decoder = "none"
    /\ decoded = Pending

NextDecode ==
    \/ CodecQuery
    \/ CodecReadCmdIF
    \/ CodecReadCmdFAFB
    \/ CodecReadCmdXI
    \/ CodecReadCmdPC
    \/ CodecConvertMode

SpecDecode == InitDecode /\ [][NextDecode]_vars

NextCodec ==
    \/ CodecQuery
    \/ CodecReadCmdIF

SpecCodec == InitCodec /\ [][NextCodec]_vars

Next ==
    \/ CallQuery
    \/ CallCheckradio
    \/ Flush
    \/ Write
    \/ ReadUntil
    \/ InWaiting
    \/ Read
    \/ Match
    \/ QueryReturns
    \/ Checkradio
    \/ CallFacade
    \/ Facade
    \/ send
    \/ Finish
    \/ DeviceSend

Spec == Init /\ [][Next]_vars

\* ------------------------------------------------------------- properties

\* the query in progress, or the one that has just ended
InQuery == pc \in {"flush", "write", "read_until", "inWaiting", "read", "match", "ret"}

\* the names of the transport operations query number q has made, in order
OpNames(q) ==
    LET mine == SelectSeq(ops, LAMBDA o : o.q = q)
    IN  [i \in 1..Len(mine) |-> mine[i].op]

IsPrefix(s, t) == Len(s) <= Len(t) /\ SubSeq(t, 1, Len(s)) = s

ReadOps == {"read_until", "inWaiting", "read"}

FullOrder == <<"flush", "write", "read_until", "inWaiting", "read">>

\* query number q made a transport operation of a name in names that failed
Failed(q, names) ==
    \E i \in 1..Len(ops) : ops[i].q = q /\ ops[i].op \in names /\ ~ops[i].ok

\* a reply as the claims mean it: a value that is not the empty text
IsReply(r) == r.kind = "value" /\ r.val # <<>>

\* C1: in a query with length # 0 the transport operations come in the order
\* flush, write, read_until, inWaiting, read; once the request is written
\* none of the bytes that were in the receive buffer at the call is left in
\* it, none has been read, and the value returned starts behind every byte
\* that was there at the call.
C1_StaleNeverReturned ==
    (InQuery /\ length # 0) =>
        /\ IsPrefix(OpNames(Len(calls)), FullOrder)
        /\ (pc \notin {"flush", "write"} => staleLeft = 0 /\ staleRead = 0)
        /\ (pc = "ret" /\ ret.kind = "value" =>
                /\ OpNames(Len(calls)) = FullOrder
                /\ staleRead <= Find(request, answer))

C1_Witness ==
    /\ pc = "ret"
    /\ length # 0
    /\ stale
    /\ ret.kind = "value"

\* C2: a query with length 0 makes no transport read: its operations are
\* flush, then write, it is never at a read, and it ends right behind the
\* write with None.
C2_NoReadWhenLengthZero ==
    (InQuery /\ length = 0) =>
        /\ IsPrefix(OpNames(Len(calls)), <<"flush", "write">>)
        /\ pc \in {"flush", "write", "ret"}
        /\ (pc = "ret" => ret = None /\ OpNames(Len(calls)) = <<"flush", "write">>)

C2_Witness ==
    /\ pc = "ret"
    /\ length = 0
    /\ request = ReqPS1
    /\ rx # <<>>
    /\ ret = None

\* the reply the claims C3 and C4 describe for an accumulated text
ValidAt(req, len, text) ==
    LET start == Find(req, text)
    IN  /\ start # -1
        /\ start + len < Len(text)
        /\ text[start + len + 1] = ";"

\* C3: with length > 0 and an accumulated text, query returns a value exactly
\* when the request occurs in the text and the character at start + length
\* is ';'; the value is then text[start, start+length), and otherwise the
\* outcome is None.
C3_ValueIffTerminatedFrame ==
    (pc = "ret" /\ bound /\ length > 0) =>
        IF ValidAt(request, length, answer)
        THEN ret = Value(Slice(answer, Find(request, answer),
                               Find(request, answer) + length))
        ELSE ret = None

\* C4: when the request is found at start and fewer than length characters
\* plus a terminator follow it, query yields None and does not raise.
C4_ShortReplyIsNone ==
    (/\ pc = "ret" /\ bound /\ length > 0
     /\ Find(request, answer) # -1
     /\ Find(request, answer) + length >= Len(answer)) =>
        ret = None

\* C5: when the reads deliver no byte at all (the accumulated text is
\* empty), a query with length > 0 yields None and does not raise.
C5_SilentTransportIsNone ==
    (pc = "ret" /\ length > 0 /\ bound /\ answer = <<>>) => ret = None

C5_Witness ==
    /\ pc = "ret"
    /\ length > 0
    /\ bound
    /\ answer = <<>>
    /\ OpNames(Len(calls)) = FullOrder
    /\ ret = None

\* C6: when the write of a query has failed, the write is made once only and
\* the query returns no reply value, whatever the transport holds afterwards.
C6_FailedWriteFailsQuery ==
    (InQuery /\ Failed(Len(calls), {"write"})) =>
        /\ Cardinality({i \in 1..Len(ops) :
                            ops[i].q = Len(calls) /\ ops[i].op = "write"}) = 1
        /\ (pc = "ret" => ret.kind # "value")

\* C7: when a transport read of a query has failed, the query yields None:
\* it does not raise.
C7_FailedReadIsNone ==
    (pc = "ret" /\ Failed(Len(calls), ReadOps)) => ret = None

\* C8: checkradio returns True exactly when the first status query yields a
\* reply, or it does not and the second does; PS1 is the second query, made
\* only after the first status query has ended without a reply, and the
\* second status query starts only after the PS1 query has ended.
C8_RespondingIffReply ==
    (proc = "checkradio") =>
        /\ Len(calls) <= Len(outcomes) + 1
        /\ \A i \in 1..Len(ops) : \A j \in 1..Len(ops) :
                i <= j => ops[i].q <= ops[j].q
        /\ \A i \in 1..Len(calls) :
                calls[i] = IF i = 2 THEN <<ReqPS1, 0>> ELSE <<ReqIF, StatusLen>>
        /\ (Len(calls) >= 2 => ~IsReply(outcomes[1]))
        /\ \A i \in 1..Len(tx) :
                tx[i] = encode(ReqPS1 \o <<";">>) =>
                    /\ ~IsReply(outcomes[1])
                    /\ ops[Len(ops)].q >= 2
        /\ (pc = "done" =>
                (result = Bool(TRUE) <=>
                    \/ IsReply(outcomes[1])
                    \/ /\ Len(outcomes) = 3
                       /\ ~IsReply(outcomes[1])
                       /\ IsReply(outcomes[3])))

C8_Witness ==
    /\ proc = "checkradio"
    /\ pc = "done"
    /\ result = Bool(TRUE)
    /\ Len(outcomes) = 3
    /\ outcomes[1] = None
    /\ tx = <<encode(ReqIF \o <<";">>), encode(ReqPS1 \o <<";">>),
              encode(ReqIF \o <<";">>)>>
    /\ outcomes[3] = Value(StatusFrame(ScenarioFreq))

\* the status queries and the power-on commands of the current call
StatusQueries == {i \in 1..Len(calls) : calls[i] = <<ReqIF, StatusLen>>}

PowerOns == {i \in 1..Len(calls) : calls[i][1] = ReqPS1}

\* a step of the program itself (not of the line)
ProgramStep ==
    Flush \/ Write \/ ReadUntil \/ InWaiting \/ Read \/ Match \/ Checkradio

\* C9: a call of checkradio makes at most two status queries and at most one
\* power-on command, each query makes its transport operations once, and the
\* call can always take its next step until it has returned; when both
\* status queries yield None it returns False, and once it has returned it
\* takes no further step.
C9_Bounded ==
    (proc = "checkradio") =>
        /\ Cardinality(StatusQueries) <= 2
        /\ Cardinality(PowerOns) <= 1
        /\ Len(calls) <= 3
        /\ (pc = "done" /\ Len(outcomes) = 3 /\ outcomes[1] = None
                /\ outcomes[3] = None => result = Bool(FALSE))
        /\ (pc = "done" /\ result = Bool(FALSE) =>
                Len(outcomes) = 3 /\ Len(calls) = 3)
        /\ \A q \in 1..Len(calls) : IsPrefix(OpNames(q), FullOrder)
        /\ (pc # "done" <=> ENABLED ProgramStep)

C9_Witness ==
    /\ proc = "checkradio"
    /\ pc = "done"
    /\ result = Bool(FALSE)
    /\ Cardinality(StatusQueries) = 2
    /\ Cardinality(PowerOns) = 1
    /\ outcomes = <<None, None, None>>

\* the frequency field of a status frame text, and a frequency text built
\* from the first k digits behind the first five
FreqField(t) == SubSeq(t, 3, 13)

Shown(d, k) == LStripSet(SubSeq(d, 1, 5) \o <<".">> \o SubSeq(d, 6, 5 + k), {"0"})

ScenarioStream == StatusFrame(ScenarioFreq) \o <<";">>

\* C10 as stated: ReadCmdIF returns the first 5 digits of D, a '.', and the
\* remaining 6 digits of D, leading zeros stripped (14.050380 in the
\* scenario).
C10_AllElevenDigits ==
    (cmd.kind = "value" /\ decoded # Pending) =>
        /\ decoded.kind = "value"
        /\ decoded.val[1] = Shown(FreqField(cmd.val), 6)

\* C10 as amended: query('IF',37) on a stream holding a terminated status
\* frame returns the 37 characters from IF on, and ReadCmdIF returns the
\* first 5 digits of D, a '.', and the next 5 digits of D (the 11th digit is
\* left out), leading zeros stripped: 14.05038 in the scenario.
C10_TenDigits ==
    /\ (cmd.kind = "value" =>
            /\ Len(cmd.val) = StatusLen
            /\ \E d \in FreqDigits : cmd.val = StatusFrame(d))
    /\ (stream = ScenarioStream /\ cmd # Pending =>
            cmd = Value(StatusFrame(ScenarioFreq)))
    /\ (cmd.kind = "value" /\ decoded # Pending =>
            /\ decoded.kind = "value"
            /\ decoded.val[1] = Shown(FreqField(cmd.val), 5))
    /\ (stream = ScenarioStream /\ decoded # Pending =>
            decoded.val[1] = <<"1", "4", ".", "0", "5", "0", "3", "8">>)

C10_Witness ==
    /\ stream = ScenarioStream
    /\ cmd = Value(StatusFrame(ScenarioFreq))
    /\ decoded.kind = "value"
    /\ decoded.val[1] = <<"1", "4", ".", "0", "5", "0", "3", "8">>

\* a text FA or FB followed by exactly 11 digits
IsVfoText(t) ==
    /\ Len(t) = 13
    /\ t[1] = "F"
    /\ t[2] \in {"A", "B"}
    /\ \A i \in 3..13 : t[i] \in Digits

ScenarioVfoText == <<"F", "A">> \o ScenarioVfoFreq

\* C11 as stated: for FA or FB followed by 11 digits D, ReadCmdFAFB returns
\* the first 5 digits of D, a '.', and all 6 remaining digits of D, leading
\* zeros stripped (14.049680 for FA00014049680).
C11_AllElevenDigits ==
    (decoder = "FAFB" /\ cmd.kind = "value" /\ IsVfoText(cmd.val)) =>
        decoded = Value(Shown(FreqField(cmd.val), 6))

\* C11 as amended: ReadCmdFAFB returns the first 5 digits of D, a '.', and
\* the next 5 digits of D (the 11th digit is left out), leading zeros
\* stripped: 14.04968 for FA00014049680.
C11_TenDigits ==
    /\ (decoder = "FAFB" /\ cmd.kind = "value" /\ IsVfoText(cmd.val) =>
            decoded = Value(Shown(FreqField(cmd.val), 5)))
    /\ (decoder = "FAFB" /\ cmd = Value(ScenarioVfoText) =>
            decoded = Value(<<"1", "4", ".", "0", "4", "9", "6", "8">>))

C11_Witness ==
    /\ decoder = "FAFB"
    /\ cmd = Value(ScenarioVfoText)
    /\ decoded = Value(<<"1", "4", ".", "0", "4", "9", "6", "8">>)

\* the frame grammars as the claims state them: the whole text, the prefix
\* in either case
Upper(c) ==
    CASE c = "i" -> "I"
      [] c = "f" -> "F"
      [] c = "a" -> "A"
      [] c = "b" -> "B"
      [] c = "x" -> "X"
      [] c = "p" -> "P"
      [] c = "c" -> "C"
      [] OTHER -> c

Prefix(t) == <<Upper(t[1]), Upper(t[2])>>

DigitsAt(t, a, b) == \A i \in a..b : t[i] \in Digits

GrammarIF(t) ==
    /\ Len(t) = 37
    /\ Prefix(t) = <<"I", "F">>
    /\ DigitsAt(t, 3, 13)
    /\ DigitsAt(t, 20, 36)
    /\ t[37] = "0"

GrammarFAFB(t) ==
    /\ Len(t) = 13
    /\ Prefix(t) \in {<<"F", "A">>, <<"F", "B">>}
    /\ DigitsAt(t, 3, 13)

GrammarXI(t) ==
    /\ Len(t) = 17
    /\ Prefix(t) = <<"X", "I">>
    /\ DigitsAt(t, 3, 15)
    /\ t[16] = "0"
    /\ t[17] = "0"

GrammarPC(t) ==
    /\ Len(t) = 5
    /\ Prefix(t) = <<"P", "C">>
    /\ DigitsAt(t, 3, 5)

Grammar(dec, t) ==
    CASE dec = "IF"   -> GrammarIF(t)
      [] dec = "FAFB" -> GrammarFAFB(t)
      [] dec = "XI"   -> GrammarXI(t)
      [] dec = "PC"   -> GrammarPC(t)

TextDecoders == {"IF", "FAFB", "XI", "PC"}

\* C12: each of the four decoders returns None on every text that does not
\* match its grammar exactly (wrong prefix, too short, characters behind a
\* well-formed frame, a non-digit for a digit).
C12_MismatchIsNone ==
    (decoder \in TextDecoders /\ cmd.kind = "value" /\ ~Grammar(decoder, cmd.val)) =>
        decoded = None

\* C13: each of the four decoders returns None, and does not raise, when it
\* is given None (what query returns for no valid reply) or the empty text.
C13_AbsentIsNone ==
    (decoder \in TextDecoders /\ (cmd = None \/ cmd = Value(<<>>))) =>
        decoded = None

\* C14: ReadCmdPC returns a value exactly on the texts PC followed by 3
\* digits, and the value is those 3 digits; any other prefix is undecodable.
C14_PowerPrefixIsPC ==
    (decoder = "PC" /\ cmd.kind = "value") =>
        IF GrammarPC(cmd.val)
        THEN decoded = Value(SubSeq(cmd.val, 3, 5))
        ELSE decoded = None

\* C15: on a text t of the status grammar ReadCmdIF returns 8 fields:
\* the frequency, then t[19..22], t[23], t[24], t[28], t[29], t[30], t[32]
\* (0-based), and each of the six single-character fields is a digit.
C15_StatusFields ==
    (decoder = "IF" /\ cmd.kind = "value" /\ GrammarIF(cmd.val)) =>
        LET t == cmd.val
        IN  /\ decoded.kind = "value"
            /\ Len(decoded.val) = 8
            /\ decoded.val[1] = Shown(FreqField(t), 5)
            /\ decoded.val[2] = <<t[20], t[21], t[22], t[23]>>
            /\ decoded.val[3] = <<t[24]>>
            /\ decoded.val[4] = <<t[25]>>
            /\ decoded.val[5] = <<t[29]>>
            /\ decoded.val[6] = <<t[30]>>
            /\ decoded.val[7] = <<t[31]>>
            /\ decoded.val[8] = <<t[33]>>
            /\ \A i \in 3..8 : decoded.val[i][1] \in Digits

C15_Witness ==
    /\ decoder = "IF"
    /\ cmd = Value(ReqIF \o ScenarioFreq \o <<" ", " ", " ", " ", " ", "+">>
                   \o <<"0", "1", "2", "3", "4", "5", "6", "7", "8",
                        "9", "0", "1", "2", "3", "4", "5", "6", "0">>)
    /\ decoded = Value(<< <<"1", "4", ".", "0", "5", "0", "3", "8">>,
                          <<"0", "1", "2", "3">>, <<"4">>, <<"5">>, <<"9">>,
                          <<"0">>, <<"1">>, <<"3">> >>)

\* a frequency text without its '.', filled with zeros on the left to n
\* characters
Undotted(s) == SelectSeq(s, LAMBDA c : c # ".")

PadLeft(s, n) ==
    [i \in 1..n |-> IF i <= n - Len(s) THEN "0" ELSE s[i - (n - Len(s))]]

\* the frequency text a decoder has produced
FreqText == IF decoder = "FAFB" THEN decoded.val ELSE decoded.val[1]

FreqDecoded ==
    /\ decoder \in {"IF", "FAFB", "XI"}
    /\ cmd.kind = "value"
    /\ Grammar(decoder, cmd.val)

\* C16 as stated: the frequency text of ReadCmdIF, ReadCmdFAFB or ReadCmdXI,
\* its '.' removed and filled with zeros on the left to 11 digits, is D.
C16_RecoversEleven ==
    FreqDecoded =>
        /\ decoded.kind = "value"
        /\ Len(Undotted(FreqText)) <= 11
        /\ PadLeft(Undotted(FreqText), 11) = FreqField(cmd.val)

\* C16 as amended: the frequency text, its '.' removed and filled with zeros
\* on the left to 10 digits, is the first 10 digits of D.
C16_RecoversTen ==
    FreqDecoded =>
        /\ decoded.kind = "value"
        /\ Len(Undotted(FreqText)) <= 10
        /\ PadLeft(Undotted(FreqText), 10) = SubSeq(FreqField(cmd.val), 1, 10)

C16_Witness ==
    /\ decoder = "XI"
    /\ cmd = Value(<<"X", "I">> \o ScenarioVfoFreq \o <<"2", "0", "0", "0">>)
    /\ FreqText = <<"1", "4", ".", "0", "4", "9", "6", "8">>
    /\ PadLeft(Undotted(FreqText), 10) =
            <<"0", "0", "0", "1", "4", "0", "4", "9", "6", "8">>

\* the table of the claim C17
ModeTable ==
    << <<>>, <<"L", "S", "B">>, <<"U", "S", "B">>, <<"C", "W">>, <<"F", "M">>,
       <<"A", "M">>, <<"F", "S", "K">>, <<"C", "W", "-", "R">>,
       <<"N", "o", "n", "e">>, <<"F", "S", "K", "-", "R">> >>

\* C17: ConvertMode(k) is entry k of the table (counted from 0) for k in
\* 1..9, and None for every other integer k, 0 included.
C17_ModeLookup ==
    (decoder = "Mode") =>
        LET k == cmd.val[1]
        IN  IF k \in 1..9
            THEN decoded = Value(ModeTable[k + 1])
            ELSE decoded = None

C17_Witness ==
    /\ decoder = "Mode"
    /\ cmd.val = <<3>>
    /\ decoded = Value(<<"C", "W">>)

CommandText(c) ==
    CASE c.op = "FreqUp"     -> <<"U", "P">>
      [] c.op = "FreqDown"   -> <<"D", "N">>
      [] c.op = "VFOfreq"    ->
            <<"U", "D", Chr(48 + c.vfo), Chr(48 + c.up),
              Chr(48 + (c.step \div 10)), Chr(48 + (c.step % 10))>>
      [] c.op = "RITUp"      -> <<"R", "U">>
      [] c.op = "RITDown"    -> <<"R", "D">>
      [] c.op = "RITOnOff"   -> <<"R", "T", Chr(48 + c.state)>>
      [] c.op = "XITOnOff"   -> <<"X", "T", Chr(48 + c.state)>>
      [] c.op = "RadioOnOff" -> <<"P", "S", Chr(48 + c.state)>>

Terminators(bytes) == {i \in 1..Len(bytes) : bytes[i] = 59}

\* C18: a facade call issues exactly one query, of expected length 0: one
\* flush, then one write, no read; the bytes written are the command text
\* and one ';', the ';' last.
C18_OneWriteOnlyQuery ==
    (proc = "facade") =>
        /\ Len(calls) = 1
        /\ calls[1] = <<CommandText(facade), 0>>
        /\ IsPrefix(OpNames(1), <<"flush", "write">>)
        /\ Len(ops) = Len(OpNames(1))
        /\ \A i \in 1..Len(ops) : ops[i].op \notin ReadOps
        /\ (pc \in {"ret", "done"} =>
                /\ OpNames(1) = <<"flush", "write">>
                /\ ~Raised(ret)
                /\ IF ops[2].ok
                   THEN /\ Len(tx) = 1
                        /\ Len(tx[1]) = Len(CommandText(facade)) + 1
                        /\ SubSeq(tx[1], 1, Len(tx[1]) - 1) =
                                [i \in 1..Len(CommandText(facade)) |->
                                    Ord[CommandText(facade)[i]]]
                        /\ Terminators(tx[1]) = {Len(tx[1])}
                   ELSE tx = <<>>)
        /\ (pc \notin {"ret", "done"} => tx = <<>>)

C18_Witness ==
    /\ proc = "facade"
    /\ pc = "done"
    /\ facade.op = "VFOfreq"
    /\ facade.up = 1
    /\ facade.step = 9
    /\ tx = <<<<85, 68, 48, 49, 48, 57, 59>>>>
    /\ OpNames(1) = <<"flush", "write">>

\* C20: when the write inside send fails, send reports the failure and
\* returns normally: its handler raises nothing.
C20_FailedSendReturns ==
    (proc = "send" /\ pc = "done" /\ ~ops[Len(ops)].ok) => result = None

====
